---- MODULE Spec2Model ----
(***************************************************************************)
(* Movie-Advisor: the similarity engine (src/src/similarity_engine.py)     *)
(* over the Movies_sorted catalog of an SQLite store.                      *)
(*                                                                         *)
(* A string is a sequence of characters; a character is a one-letter       *)
(* string.  The two characters outside ASCII that the model uses are       *)
(* written by their code points: "U+00C9" is LATIN CAPITAL LETTER E WITH   *)
(* ACUTE and "U+00E9" is its small letter.                                 *)
(***************************************************************************)
EXTENDS Integers, Sequences, FiniteSets, TLC

(***************************************************************************)
(* Characters and case conversion                                          *)
(***************************************************************************)
\* The ASCII capital letters, each with its small letter.
AsciiLower ==
    [A |-> "a", B |-> "b", C |-> "c", D |-> "d", E |-> "e", F |-> "f",
     G |-> "g", H |-> "h", I |-> "i", J |-> "j", K |-> "k", L |-> "l",
     M |-> "m", N |-> "n", O |-> "o", P |-> "p", Q |-> "q", R |-> "r",
     S |-> "s", T |-> "t", U |-> "u", V |-> "v", W |-> "w", X |-> "x",
     Y |-> "y", Z |-> "z"]

\* One character through SQLite's built-in LOWER(): ASCII letters only.
SqlLowerChar(c) ==
    IF c \in DOMAIN AsciiLower THEN AsciiLower[c] ELSE c

\* One character through Python's str.lower(): Unicode aware.
PyLowerChar(c) ==
    IF c = "U+00C9" THEN "U+00E9" ELSE SqlLowerChar(c)

\* SQL LOWER(s)
SqlLower(s) ==
    [i \in 1..Len(s) |-> SqlLowerChar(s[i])]

\* Python s.lower()
PyLower(s) ==
    [i \in 1..Len(s) |-> PyLowerChar(s[i])]

(***************************************************************************)
(* SQLite's LIKE: % matches any run of characters, _ any one character,    *)
(* every other character matches itself, ASCII letters in either case.     *)
(* The engine's statements give no ESCAPE character.                       *)
(***************************************************************************)
RECURSIVE LikeMatch(_, _)
LikeMatch(pattern, text) ==
    IF pattern = <<>> THEN text = <<>>
    ELSE IF Head(pattern) = "%"
         THEN \E k \in 0..Len(text) :
                 LikeMatch(Tail(pattern), SubSeq(text, k + 1, Len(text)))
    ELSE IF text = <<>> THEN FALSE
    ELSE IF Head(pattern) = "_" THEN LikeMatch(Tail(pattern), Tail(text))
    ELSE /\ SqlLowerChar(Head(pattern)) = SqlLowerChar(Head(text))
         /\ LikeMatch(Tail(pattern), Tail(text))

\* The parameter f'%{s}%'
Wrapped(s) ==
    <<"%">> \o s \o <<"%">>

(***************************************************************************)
(* Python's str.split(',') and str.strip()                                 *)
(***************************************************************************)
\* The whitespace str.strip() removes; of it the model's strings hold the
\* blank only.
IsSpace(c) ==
    c = " "

RECURSIVE LStrip(_)
LStrip(s) ==
    IF s # <<>> /\ IsSpace(Head(s)) THEN LStrip(Tail(s)) ELSE s

RECURSIVE RStrip(_)
RStrip(s) ==
    IF s # <<>> /\ IsSpace(s[Len(s)]) THEN RStrip(SubSeq(s, 1, Len(s) - 1)) ELSE s

Strip(s) ==
    RStrip(LStrip(s))

\* s.split(','): the pieces between the commas, empty pieces included.
RECURSIVE Split(_)
Split(s) ==
    IF \E i \in 1..Len(s) : s[i] = ","
    THEN LET i == CHOOSE j \in 1..Len(s) :
                     s[j] = "," /\ \A h \in 1..(j - 1) : s[h] # ","
         IN  <<SubSeq(s, 1, i - 1)>> \o Split(SubSeq(s, i + 1, Len(s)))
    ELSE <<s>>

RECURSIVE StripLowerNonEmpty(_)
StripLowerNonEmpty(parts) ==
    IF parts = <<>> THEN <<>>
    ELSE IF Strip(Head(parts)) # <<>>
         THEN <<PyLower(Strip(Head(parts)))>> \o StripLowerNonEmpty(Tail(parts))
         ELSE StripLowerNonEmpty(Tail(parts))

\* the comprehension without its filter: blank pieces stay as empty tokens
ParseTokensKeepEmpty(target) ==
    LET parts == Split(target)
    IN  [i \in 1..Len(parts) |-> PyLower(Strip(parts[i]))]

\* [g.strip().lower() for g in target.split(',') if g.strip()]
ParseTokens(target) ==
    StripLowerNonEmpty(Split(target))

(***************************************************************************)
(* difflib.SequenceMatcher(None, a, b).ratio(), for strings shorter than   *)
(* the 200 characters at which difflib's popularity heuristic starts.      *)
(***************************************************************************)
\* a[i..i+k-1] = b[j..j+k-1]
BlockAt(a, b, i, j, k) ==
    /\ i + k - 1 <= Len(a)
    /\ j + k - 1 <= Len(b)
    /\ \A d \in 0..(k - 1) : a[i + d] = b[j + d]

\* find_longest_match: the longest block a[i..i+k-1] = b[j..j+k-1]; among the
\* longest the one starting earliest in a, and of those earliest in b.
FindLongestMatch(a, b) ==
    LET HasBlock(k) == \E i \in 1..Len(a), j \in 1..Len(b) : BlockAt(a, b, i, j, k)
        StartsAt(i, k) == \E j \in 1..Len(b) : BlockAt(a, b, i, j, k)
        k == CHOOSE n \in 0..Len(a) : HasBlock(n) /\ ~HasBlock(n + 1)
        i == CHOOSE n \in 1..Len(a) :
                 StartsAt(n, k) /\ \A h \in 1..(n - 1) : ~StartsAt(h, k)
        j == CHOOSE n \in 1..Len(b) :
                 BlockAt(a, b, i, n, k) /\ \A h \in 1..(n - 1) : ~BlockAt(a, b, i, h, k)
    IN  [i |-> i, j |-> j, k |-> k]

\* Total size of get_matching_blocks(): the longest block m, then the same
\* to its left and to its right.
RECURSIVE MatchedChars(_, _)
RECURSIVE MatchedAround(_, _, _)
MatchedAround(a, b, m) ==
    IF m.k = 0 THEN 0
    ELSE m.k
         + MatchedChars(SubSeq(a, 1, m.i - 1), SubSeq(b, 1, m.j - 1))
         + MatchedChars(SubSeq(a, m.i + m.k, Len(a)), SubSeq(b, m.j + m.k, Len(b)))

MatchedChars(a, b) ==
    IF a = <<>> \/ b = <<>> THEN 0
    ELSE MatchedAround(a, b, FindLongestMatch(a, b))

\* ratio() = 2.0 * matches / (len(a) + len(b)), and 1.0 for two empty strings,
\* kept as the fraction <<numerator, denominator>>.
Ratio(a, b) ==
    IF Len(a) + Len(b) = 0 THEN <<1, 1>>
    ELSE <<2 * MatchedChars(a, b), Len(a) + Len(b)>>

\* r > s for two fractions with positive denominators
RatioGreater(r, s) ==
    r[1] * s[2] > s[1] * r[2]


(***************************************************************************)
(* The catalog: the rows of Movies_sorted in the store's scan order.  The  *)
(* columns director, stars and rating are selected and copied into every   *)
(* record but never read by the engine; the model leaves them out.         *)
(***************************************************************************)
\* SQL NULL, which sqlite3 hands to Python as None (final_score only).
NULL ==
    <<>>

Movie(t, y, g, k, s) ==
    [title |-> t, release_year |-> y, genres |-> g, keywords |-> k,
     final_score |-> s]

VARIABLES
    catalog,       \* the rows of Movies_sorted
    store_ok,      \* per statement: FALSE when cursor.execute raises for it
    op,            \* the engine operation that ran last, "idle" when none
    args,          \* its arguments
    target_movie,  \* comprehensive_similarity_search: its local target_movie
    result,        \* the value returned (a dict is a list of at most one row)
    raised,        \* TRUE when the operation ended by raising
    queries,       \* the statements it executed on the store, in order
    unclosed,      \* the connections it opened and did not close
    status,        \* run_cli_query: the status it printed, else "none"
    previous,      \* the list an earlier, identical search returned, if any
    movies_table,  \* the rows of DatabaseManager's movies table
    threads        \* concurrent searches: each one's position and locals

vars ==
    <<catalog, store_ok, op, args, target_movie, result, raised, queries,
      unclosed, status, previous, movies_table, threads>>

(***************************************************************************)
(* The statements the engine executes                                      *)
(***************************************************************************)
\* LIMIT n: a negative n is no limit.
SqlLimit(rows, n) ==
    IF n < 0 \/ n >= Len(rows) THEN rows ELSE SubSeq(rows, 1, n)

\* rows in the order given by Before, rows that tie staying in the order
\* they have in rows.
StableSort(rows, Before(_, _)) ==
    LET n == Len(rows)
        pos(i) == 1 + Cardinality({j \in 1..n :
                         \/ Before(rows[j], rows[i])
                         \/ ~Before(rows[i], rows[j]) /\ j < i})
    IN  [p \in 1..n |-> rows[CHOOSE i \in 1..n : pos(i) = p]]

\* ORDER BY final_score DESC: SQLite sorts NULL below every value, so that
\* it comes last in descending order.
ScoreBefore(r1, r2) ==
    /\ r1.final_score # NULL
    /\ r2.final_score = NULL \/ r1.final_score[1] > r2.final_score[1]

OrderByFinalScoreDesc(rows) ==
    StableSort(rows, ScoreBefore)

\* WHERE LOWER(title) = LOWER(?)
ExactTitleTest(row, title) ==
    SqlLower(row.title) = SqlLower(title)

\* WHERE LOWER(title) LIKE LOWER(?), the parameter being f'%{title}%'
PartialTitleTest(row, title) ==
    LikeMatch(SqlLower(Wrapped(title)), SqlLower(row.title))

\* LIMIT 1 and fetchone()
FetchOne(rows) ==
    SqlLimit(rows, 1)

ExactTitleQuery(cat, title) ==
    LET Test(row) == ExactTitleTest(row, title)
    IN  FetchOne(SelectSeq(cat, Test))

PartialTitleQuery(cat, title) ==
    LET Test(row) == PartialTitleTest(row, title)
    IN  FetchOne(SelectSeq(cat, Test))

\* WHERE LOWER(title) != LOWER(?), the parameter being exclude_title.lower()
NotExcludedTest(row, exclude_title) ==
    SqlLower(row.title) # SqlLower(PyLower(exclude_title))

\* LOWER(column) LIKE ? OR ..., the parameters being f'%{token}%'
AnyTokenLikeTest(text, tokens) ==
    \E i \in 1..Len(tokens) : LikeMatch(Wrapped(tokens[i]), SqlLower(text))

\* SELECT ... WHERE LOWER(title) != LOWER(?) AND (LOWER(genres) LIKE ? OR ...)
\* ORDER BY final_score DESC LIMIT ?
SimilarByGenresQuery(cat, tokens, exclude_title, limit) ==
    LET Test(row) == /\ NotExcludedTest(row, exclude_title)
                     /\ AnyTokenLikeTest(row.genres, tokens)
    IN  SqlLimit(OrderByFinalScoreDesc(SelectSeq(cat, Test)), limit)

\* the same statement over the keywords column
SimilarByKeywordsQuery(cat, tokens, exclude_title, limit) ==
    LET Test(row) == /\ NotExcludedTest(row, exclude_title)
                     /\ AnyTokenLikeTest(row.keywords, tokens)
    IN  SqlLimit(OrderByFinalScoreDesc(SelectSeq(cat, Test)), limit)

(***************************************************************************)
(* The engine's operations.  Each yields what the call does: whether it    *)
(* raised, the value it returned and the statements it executed.           *)
(***************************************************************************)
\* The statements by the name they have in queries.
Statements ==
    {"exact", "partial", "scan", "genres", "keywords"}

\* return after conn.close()
Returned(value, stmts) ==
    [raised |-> FALSE, value |-> value, queries |-> stmts, unclosed |-> 0]

\* return between sqlite3.connect() and conn.close()
ReturnedOpen(value) ==
    [raised |-> FALSE, value |-> value, queries |-> <<>>, unclosed |-> 1]

\* except sqlite3.Error: return []
RaisedSwallowed(stmts) ==
    [raised |-> FALSE, value |-> <<>>, queries |-> stmts, unclosed |-> 1]

\* cursor.execute() raises: the exception leaves the method, which has no
\* try/finally, before conn.close()
Raised(stmts) ==
    [raised |-> TRUE, value |-> <<>>, queries |-> stmts, unclosed |-> 1]

\* the outcome of second, made after first returned
After(first, second) ==
    [second EXCEPT !.queries = first.queries \o @,
                   !.unclosed = first.unclosed + @]

get_movie_by_title(cat, ok, title) ==
    IF ~ok.exact THEN Raised(<<"exact">>)
    ELSE LET exact == ExactTitleQuery(cat, title)
         IN  IF exact # <<>> THEN Returned(exact, <<"exact">>)
             ELSE IF ~ok.partial THEN Raised(<<"exact", "partial">>)
             ELSE Returned(PartialTitleQuery(cat, title), <<"exact", "partial">>)

\* similarity > 0.6
FuzzyThreshold(similarity) ==
    10 * similarity[1] > 6 * similarity[2]

\* SequenceMatcher(None, title.lower(), row[0].lower()).ratio()
Similarity(title, row) ==
    Ratio(PyLower(title), PyLower(row.title))

\* if similarity > 0.6: matches.append((similarity, {...}))
MatchOf(similarity, row) ==
    IF FuzzyThreshold(similarity)
    THEN <<[similarity |-> similarity, movie |-> row]>>
    ELSE <<>>

\* matches: (similarity, movie) for the rows over the threshold, in scan order
RECURSIVE FuzzyMatches(_, _)
FuzzyMatches(rows, title) ==
    IF rows = <<>> THEN <<>>
    ELSE MatchOf(Similarity(title, Head(rows)), Head(rows))
         \o FuzzyMatches(Tail(rows), title)

\* matches left in scan order
SortMatchesScanOrder(matches) ==
    matches

\* matches.sort(key=lambda x: x[0], reverse=True)
SortMatches(matches) ==
    LET Before(m1, m2) == RatioGreater(m1.similarity, m2.similarity)
    IN  StableSort(matches, Before)

\* the list without the slice
TruncateNothing(list, limit) ==
    list

\* matches[:limit], sequence[:limit]
Truncate(list, limit) ==
    IF limit >= 0
    THEN SubSeq(list, 1, IF limit < Len(list) THEN limit ELSE Len(list))
    ELSE SubSeq(list, 1, IF Len(list) + limit > 0 THEN Len(list) + limit ELSE 0)

\* [movie for _, movie in matches]
MoviesOf(matches) ==
    [i \in 1..Len(matches) |-> matches[i].movie]

search_movies_fuzzy(cat, ok, title, limit) ==
    IF ~ok.scan THEN Raised(<<"scan">>)
    ELSE Returned(MoviesOf(Truncate(SortMatches(FuzzyMatches(cat, title)), limit)),
                  <<"scan">>)

get_similar_movies_by_genres(cat, ok, target_genres, exclude_title, limit) ==
    LET target_genre_list == ParseTokens(target_genres)
    IN  IF target_genre_list = <<>> THEN ReturnedOpen(<<>>)
        ELSE IF ~ok.genres THEN Raised(<<"genres">>)
        ELSE Returned(SimilarByGenresQuery(cat, target_genre_list,
                                           exclude_title, limit),
                      <<"genres">>)

get_similar_movies_by_keywords(cat, ok, target_keywords, exclude_title, limit) ==
    LET target_keywords_list == ParseTokens(target_keywords)
    IN  IF target_keywords_list = <<>> THEN ReturnedOpen(<<>>)
        ELSE IF ~ok.keywords THEN Raised(<<"keywords">>)
        ELSE Returned(SimilarByKeywordsQuery(cat, target_keywords_list,
                                             exclude_title, limit),
                      <<"keywords">>)

\* if movie['title'] not in combined_movies: combined_movies[...] = movie
CombineByTitleFirst(movies) ==
    LET IsFirst(i) == \A j \in 1..(i - 1) : movies[j].title # movies[i].title
        firsts == SelectSeq([i \in 1..Len(movies) |-> i], IsFirst)
    IN  [p \in 1..Len(firsts) |-> movies[firsts[p]]]

\* combined_movies = {}; for movie in movies: combined_movies[movie['title']]
\* = movie; combined_movies.values(): one entry per title, at the place of
\* the title's first record and holding its last record.
CombineByTitle(movies) ==
    LET n == Len(movies)
        IsFirst(i) == \A j \in 1..(i - 1) : movies[j].title # movies[i].title
        LastOf(i) == CHOOSE j \in i..n :
                        /\ movies[j].title = movies[i].title
                        /\ \A h \in (j + 1)..n : movies[h].title # movies[i].title
        firsts == SelectSeq([i \in 1..n |-> i], IsFirst)
    IN  [p \in 1..Len(firsts) |-> movies[LastOf(firsts[p])]]

\* x['final_score'] or 0
ScoreOrZero(movie) ==
    IF movie.final_score = NULL THEN 0 ELSE movie.final_score[1]

\* sorted(combined_movies.values(), key=lambda x: x['final_score'] or 0,
\* reverse=True)
SortByFinalScore(movies) ==
    LET Before(m1, m2) == ScoreOrZero(m1) > ScoreOrZero(m2)
    IN  StableSort(movies, Before)

\* target_movie.get('keywords'): a non-empty string
HasKeywords(movie) ==
    movie.keywords # <<>>

\* search_movies_fuzzy's default limit
DefaultFuzzyLimit ==
    5

\* possible_matches[0] taken without the test of possible_matches: an
\* IndexError on an empty list
FuzzyFallbackUnchecked(by_title, fuzzy) ==
    IF fuzzy.raised \/ fuzzy.value = <<>>
    THEN After(by_title, [fuzzy EXCEPT !.raised = TRUE])
    ELSE After(by_title, [fuzzy EXCEPT !.value = Truncate(@, 1)])

\* if possible_matches: target_movie = possible_matches[0], else none
FuzzyFallback(by_title, fuzzy) ==
    IF fuzzy.raised
    THEN After(by_title, fuzzy)
    ELSE After(by_title, [fuzzy EXCEPT !.value = Truncate(@, 1)])

\* if not target_movie: try fuzzy matching
ResolveFrom(cat, ok, target_title, by_title) ==
    IF by_title.raised \/ by_title.value # <<>> THEN by_title
    ELSE FuzzyFallback(by_title,
                       search_movies_fuzzy(cat, ok, target_title, DefaultFuzzyLimit))

\* The first half of comprehensive_similarity_search: target_movie, or none.
ResolveTarget(cat, ok, target_title) ==
    ResolveFrom(cat, ok, target_title, get_movie_by_title(cat, ok, target_title))

\* Combine and deduplicate, sort by final score and return the top.
MergeAndRank(genre_similar, keyword_similar, limit) ==
    IF keyword_similar.raised
    THEN After(genre_similar, keyword_similar)
    ELSE After(genre_similar,
               [keyword_similar EXCEPT !.value =
                    Truncate(SortByFinalScore(CombineByTitle(
                        genre_similar.value \o keyword_similar.value)), limit)])

\* if target_movie.get('keywords'): ... else: return genre_similar[:limit]
RankFrom(cat, ok, movie, limit, genre_similar) ==
    IF genre_similar.raised THEN genre_similar
    ELSE IF HasKeywords(movie)
    THEN MergeAndRank(genre_similar,
                      get_similar_movies_by_keywords(cat, ok, movie.keywords,
                                                     movie.title, limit * 2),
                      limit)
    ELSE [genre_similar EXCEPT !.value = Truncate(@, limit)]

\* The second half: the candidates of a resolved target_movie.
ExpandAndRank(cat, ok, movie, limit) ==
    RankFrom(cat, ok, movie, limit,
             get_similar_movies_by_genres(cat, ok, movie.genres, movie.title,
                                          limit * 2))

\* the outcome of the second half, with the target_movie it worked on
WithTarget(resolved, ranked) ==
    After(resolved, ranked) @@ [target |-> resolved.value]

\* return [] when nothing was resolved, else expand and rank
SearchFrom(cat, ok, limit, resolved) ==
    IF resolved.raised \/ resolved.value = <<>>
    THEN [resolved EXCEPT !.value = <<>>] @@ [target |-> <<>>]
    ELSE WithTarget(resolved, ExpandAndRank(cat, ok, resolved.value[1], limit))

comprehensive_similarity_search(cat, ok, target_title, limit) ==
    SearchFrom(cat, ok, limit, ResolveTarget(cat, ok, target_title))

(***************************************************************************)
(* Concurrent searches.  Each invocation of                                *)
(* comprehensive_similarity_search runs its statements one at a time on    *)
(* the shared catalog, each method on a connection of its own; between two *)
(* statements of one invocation the others may run theirs.  What an        *)
(* invocation keeps between statements - target_movie, genre_similar - are *)
(* local variables of the call; the engine object holds db_path only.      *)
(***************************************************************************)
\* self.name = value: an attribute of the engine, seen by every invocation
Shared(ths, t, name, value) ==
    [u \in DOMAIN ths |-> [ths[u] EXCEPT ![name] = value]]

\* name = value: a local variable of invocation t
Local(ths, t, name, value) ==
    [ths EXCEPT ![t][name] = value]

\* invocation t goes on to its statement pc
Goto(ths, t, pc) ==
    [ths EXCEPT ![t].pc = pc]

\* an invocation that has not been called
NotCalled ==
    [pc |-> "idle", target_title |-> <<>>, limit |-> 0, target_movie |-> <<>>,
     genre_similar |-> <<>>, result |-> <<>>]

\* if a statement of the resolution found a record it is the target_movie
\* and the candidates come next, else the next step of the resolution
Resolving(ths, t, found, next_pc) ==
    IF found # <<>>
    THEN Goto(Local(ths, t, "target_movie", found), t, "genres")
    ELSE Goto(ths, t, next_pc)

\* genre_similar is kept for the merge if the target has keywords, else
\* genre_similar[:limit] is returned
AfterGenres(ths, t, genre_similar) ==
    IF HasKeywords(ths[t].target_movie[1])
    THEN Goto(Local(ths, t, "genre_similar", genre_similar), t, "keywords")
    ELSE Goto(Local(ths, t, "result", Truncate(genre_similar, ths[t].limit)),
              t, "done")

\* combine, deduplicate, sort and return sorted_movies[:limit]
AfterKeywords(ths, t, keyword_similar) ==
    Goto(Local(ths, t, "result",
               Truncate(SortByFinalScore(CombineByTitle(
                   ths[t].genre_similar \o keyword_similar)), ths[t].limit)),
         t, "done")

\* the limit run_cli_query asks for
CliLimit ==
    5

\* main.run_cli_query once the database file is found: the status it prints
\* and the code it returns.
CliOutcome(out) ==
    IF out.raised
    THEN [status |-> "error", code |-> 2, recommendations |-> <<>>]
    ELSE [status |-> "ok", code |-> 0, recommendations |-> out.value]

(***************************************************************************)
(* DatabaseManager: the movies table with UNIQUE(title, release_year) and  *)
(* the methods that write and read it.  A row keeps the columns the        *)
(* methods' conditions read: title, release_year, genres and rating.       *)
(***************************************************************************)
\* Python's None, stored as SQL NULL in a TEXT column
PyNone ==
    <<"None">>

\* a key the dict does not have
Missing ==
    <<"missing">>

MovieData(t, y, g, r) ==
    [title |-> t, release_year |-> y, genres |-> g, rating |-> r]

\* movie_data.get(key, default)
Get(value, default) ==
    IF value = Missing THEN default ELSE value

\* the tuple bound to VALUES (?, ?, ...)
ValuesOf(movie_data) ==
    [title |-> Get(movie_data.title, <<>>),
     release_year |-> Get(movie_data.release_year, <<>>),
     genres |-> Get(movie_data.genres, <<>>),
     rating |-> movie_data.rating]

\* UNIQUE(title, release_year): a NULL is distinct from every value, another
\* NULL included, so that a row with a NULL year conflicts with no row.
UniqueConflict(row, values) ==
    /\ values.release_year # PyNone
    /\ row.title = values.title
    /\ row.release_year = values.release_year

\* INSERT OR IGNORE INTO movies: a row that breaks title TEXT NOT NULL or
\* the UNIQUE constraint is skipped.
InsertOrIgnore(table, values) ==
    IF \/ values.title = PyNone
       \/ \E i \in 1..Len(table) : UniqueConflict(table[i], values)
    THEN table
    ELSE Append(table, values)

\* cursor.rowcount > 0
RowAdded(table, after) ==
    Len(after) > Len(table)

\* conn.commit(); return cursor.rowcount > 0; finally: conn.close()
AddedOne(table, after) ==
    [raised |-> FALSE, value |-> <<RowAdded(table, after)>>,
     queries |-> <<"insert">>, unclosed |-> 0, table |-> after]

add_movie(table, movie_data) ==
    AddedOne(table, InsertOrIgnore(table, ValuesOf(movie_data)))

RECURSIVE AddEach(_, _, _)
RECURSIVE AddNext(_, _, _, _)
\* for movie in movies: INSERT OR IGNORE; if cursor.rowcount > 0:
\* added_count += 1
AddEach(table, rest, added_count) ==
    IF rest = <<>>
    THEN [raised |-> FALSE, value |-> <<added_count>>, queries |-> <<>>,
          unclosed |-> 0, table |-> table]
    ELSE AddNext(table, InsertOrIgnore(table, ValuesOf(Head(rest))),
                 Tail(rest), added_count)

AddNext(table, after, rest, added_count) ==
    AddEach(after, rest,
            IF RowAdded(table, after) THEN added_count + 1 ELSE added_count)

add_movies(table, movie_list) ==
    [AddEach(table, movie_list, 0)
        EXCEPT !.queries = [i \in 1..Len(movie_list) |-> "insert"]]

\* ORDER BY rating DESC
RatingBefore(r1, r2) ==
    r1.rating > r2.rating

\* SELECT ... FROM movies WHERE (LOWER(genres) LIKE ? OR ...) AND
\* LOWER(title) != ? ORDER BY rating DESC LIMIT ?, the last-but-one
\* parameter being exclude_title.lower()
SimilarMoviesQuery(table, tokens, exclude_title, limit) ==
    LET Test(row) == /\ AnyTokenLikeTest(row.genres, tokens)
                     /\ SqlLower(row.title) # PyLower(exclude_title)
    IN  SqlLimit(StableSort(SelectSeq(table, Test), RatingBefore), limit)

\* DatabaseManager.get_similar_movies: with no token genre_conditions is the
\* empty string and the statement reads WHERE () AND ..., which SQLite
\* refuses with a syntax error; conn.close() is not reached.
get_similar_movies(table, target_genres, exclude_title, limit) ==
    LET genre_list == ParseTokens(target_genres)
    IN  IF genre_list = <<>> THEN Raised(<<"similar">>)
        ELSE Returned(SimilarMoviesQuery(table, genre_list, exclude_title,
                                         limit),
                      <<"similar">>)

(***************************************************************************)
(* Bounds and the values the inputs are drawn from                         *)
(***************************************************************************)
\* rows of a catalog whose rows differ in their titles only
MaxTitles ==
    2

\* rows of a catalog given to the two candidate operations
MaxExpandRows ==
    2

\* rows of a catalog given to comprehensive_similarity_search
MaxRows ==
    3

\* largest limit asked for
MaxLimit ==
    2

Digits ==
    <<"0", "1", "2", "3", "4", "5", "6", "7", "8", "9">>

\* release_year is an opaque label; the i-th year is "200i".
YearAt(i) ==
    <<"2", "0", "0", Digits[i + 1]>>

\* Titles: both cases of one title, a title that contains another, a title
\* outside ASCII, a title holding a LIKE wildcard, the spec's "Inception".
Titles ==
    {<<"a", "b">>,
     <<"A", "b">>,
     <<"a", "b", "b">>,
     <<"b">>,
     <<"U+00C9">>,
     <<"c", "d">>,
     <<"a", "_">>,
     <<"I", "n", "c", "e", "p", "t", "i", "o", "n">>}

\* Query titles: the empty string, exact matches in either case, substrings,
\* misspellings ("axb", "inceptoin"), the LIKE wildcards, titles outside
\* ASCII in both cases, and titles no catalog holds.
Queries ==
    {<<>>,
     <<"a", "b">>,
     <<"A", "B">>,
     <<"b">>,
     <<"a", "x", "b">>,
     <<"_">>,
     <<"%">>,
     <<"U+00C9">>,
     <<"U+00E9">>,
     <<"q", "q">>,
     <<"m">>,
     <<"w">>,
     <<"z">>,
     <<"I", "n", "c", "e", "p", "t", "i", "o", "n">>,
     <<"i", "n", "c", "e", "p", "t", "o", "i", "n">>}

\* Rows for the candidate operations: one title under two release years
\* (twice), genre and keyword strings that overlap or do not, a genre
\* holding the LIKE wildcard _, keywords of whitespace only, a title
\* outside ASCII, a final_score that is NULL, negative, zero or positive.
SearchRows ==
    {Movie(<<"a", "b">>, YearAt(1), <<"g", ",", " ", "h">>, <<>>, <<2>>),
     Movie(<<"a", "b">>, YearAt(2), <<"G">>, <<"k">>, <<1>>),
     Movie(<<"m">>, YearAt(1), <<"g">>, <<"k">>, <<1>>),
     Movie(<<"m">>, YearAt(2), <<"g", ",", " ", "H">>, <<>>, NULL),
     Movie(<<"n">>, YearAt(1), <<"z">>, <<"k">>, <<2>>),
     Movie(<<"n">>, YearAt(2), <<"g", "h">>, <<"j">>, <<-1>>),
     Movie(<<"z">>, YearAt(1), <<"z">>, <<" ">>, <<1>>),
     Movie(<<"U+00C9">>, YearAt(1), <<"g">>, <<>>, <<1>>),
     Movie(<<"w">>, YearAt(1), <<"s", "_", "f">>, <<>>, <<0>>),
     Movie(<<"v">>, YearAt(1), <<"s", "-", "f">>, <<>>, NULL)}

\* The catalog of the spec's scenario (final_score in tenths).
ScenarioRows ==
    {Movie(<<"I", "n", "c", "e", "p", "t", "i", "o", "n">>, YearAt(0), <<"S", "c", "i", "-", "F", "i", ",", " ", "T", "h", "r", "i", "l", "l", "e", "r">>, <<>>, <<92>>),
     Movie(<<"I", "n", "t", "e", "r", "s", "t", "e", "l", "l", "a", "r">>, YearAt(4), <<"S", "c", "i", "-", "F", "i", ",", " ", "D", "r", "a", "m", "a">>, <<>>, <<95>>),
     Movie(<<"T", "h", "e", " ", "N", "o", "t", "e", "b", "o", "o", "k">>, YearAt(4), <<"R", "o", "m", "a", "n", "c", "e", ",", " ", "D", "r", "a", "m", "a">>, <<>>, <<71>>)}

\* target_genres / target_keywords given to the candidate operations
TargetStrings ==
    {<<>>,
     <<" ">>,
     <<",">>,
     <<" ", ",", " ">>,
     <<"g">>,
     <<"G", ",", " ", "h">>,
     <<"s", "_", "f">>,
     <<"k">>,
     <<"%">>}

ExcludeTitles ==
    {<<"a", "b">>,
     <<"A", "B">>,
     <<"U+00C9">>,
     <<"q", "q">>}

Limits ==
    0..MaxLimit

\* The sequences of n distinct members of a set of rows
Arrangements(rows, n) ==
    {c \in [1..n -> rows] : \A i, j \in 1..n : i # j => c[i] # c[j]}

\* Catalogs of at most MaxTitles rows that differ in title (and year) only
TitleCatalogs ==
    UNION {{[i \in 1..n |-> Movie(ts[i], YearAt(i), <<"g">>, <<>>, NULL)] :
              ts \in [1..n -> Titles]} : n \in 0..MaxTitles}

ExpandCatalogs ==
    UNION {Arrangements(SearchRows, n) : n \in 0..MaxExpandRows}

\* Rows for calls on a store that fails: a target with and one without
\* keywords, and a candidate of both.
FailureRows ==
    {Movie(<<"a", "b">>, YearAt(1), <<"g", ",", " ", "h">>, <<>>, <<2>>),
     Movie(<<"a", "b">>, YearAt(2), <<"G">>, <<"k">>, <<1>>),
     Movie(<<"m">>, YearAt(1), <<"g">>, <<"k">>, <<1>>)}

FailureCatalogs ==
    UNION {Arrangements(FailureRows, n) : n \in 0..MaxExpandRows}

\* Rows that tie on final_score, and a target for them.
RepeatRows ==
    {Movie(<<"a", "b">>, YearAt(1), <<"g">>, <<>>, <<2>>),
     Movie(<<"m">>, YearAt(1), <<"g">>, <<>>, <<1>>),
     Movie(<<"n">>, YearAt(1), <<"g">>, <<>>, <<1>>),
     Movie(<<"z">>, YearAt(1), <<"g">>, <<>>, <<0>>)}

RepeatCatalogs ==
    UNION {Arrangements(RepeatRows, n) : n \in 0..MaxRows}

\* The same rows in the orders a scan of the table can visit them: SQL
\* fixes no order among rows that ORDER BY does not tell apart.
ScanOrders(cat) ==
    Arrangements({cat[i] : i \in 1..Len(cat)}, Len(cat))

\* the rows the movies table may hold before add_movie(s) is refused a call
MaxTableRows ==
    3

\* the longest list given to add_movies
MaxBatch ==
    2

\* Dicts given to add_movie(s): one (title, release_year) twice with other
\* columns, the same title under another year, a year that is None, a dict
\* without the year, a title that is None.
MovieDatas ==
    {MovieData(<<"X">>, YearAt(1), <<"g">>, 2),
     MovieData(<<"X">>, YearAt(1), <<"h">>, 1),
     MovieData(<<"X">>, YearAt(2), <<"g">>, 1),
     MovieData(<<"Y">>, PyNone, <<"g">>, 1),
     MovieData(<<"Y">>, Missing, Missing, 2),
     MovieData(PyNone, YearAt(1), <<"g">>, 1)}

MovieLists ==
    UNION {[1..n -> MovieDatas] : n \in 0..MaxBatch}

\* target_genres given to get_similar_movies
ManagerTargets ==
    {<<>>,
     <<" ", ",", " ">>,
     <<"g">>,
     <<"G", ",", " ", "h">>}

ManagerExcludes ==
    {<<"X">>, <<"q", "q">>}

\* A target and candidates that all share its genre and its keyword: one
\* title under four release years, and another title that scores lowest.
OverfetchOrder ==
    <<Movie(<<"z">>, YearAt(0), <<"g">>, <<"k">>, <<9>>),
      Movie(<<"m">>, YearAt(1), <<"g">>, <<"k">>, <<5>>),
      Movie(<<"m">>, YearAt(2), <<"g">>, <<"k">>, <<4>>),
      Movie(<<"m">>, YearAt(3), <<"g">>, <<"k">>, <<3>>),
      Movie(<<"m">>, YearAt(4), <<"g">>, <<"k">>, <<2>>),
      Movie(<<"n">>, YearAt(1), <<"g">>, <<"k">>, <<1>>)>>

\* the rows of OverfetchOrder at the places in chosen, in that order
Chosen(chosen) ==
    LET Place(p) == CHOOSE i \in chosen :
                        Cardinality({j \in chosen : j < i}) = p - 1
    IN  [p \in 1..Cardinality(chosen) |-> OverfetchOrder[Place(p)]]

OverfetchCatalogs ==
    {Chosen(chosen) : chosen \in SUBSET (1..Len(OverfetchOrder))}

\* the invocations that run at once
Threads ==
    {1, 2}

\* Rows for concurrent searches: targets with keywords whose candidates
\* differ, one title under two years.
ConcurrentRows ==
    {Movie(<<"a", "b">>, YearAt(2), <<"G">>, <<"k">>, <<1>>),
     Movie(<<"m">>, YearAt(1), <<"g">>, <<"k">>, <<1>>),
     Movie(<<"n">>, YearAt(1), <<"z">>, <<"k">>, <<2>>),
     Movie(<<"n">>, YearAt(2), <<"g", "h">>, <<>>, <<-1>>)}

ConcurrentCatalogs ==
    UNION {Arrangements(ConcurrentRows, n) : n \in 0..MaxExpandRows}

\* an exact match, a substring of one title, a misspelling, no match
ConcurrentQueries ==
    {<<"a", "b">>, <<"m">>, <<"a", "x", "b">>, <<"q", "q">>}

ConcurrentLimits ==
    1..MaxLimit

SearchCatalogs ==
    UNION {Arrangements(SearchRows, n) : n \in 0..MaxRows}
        \cup Arrangements(ScenarioRows, Cardinality(ScenarioRows))

(***************************************************************************)
(* The state machine: a caller that makes one engine call at a time on a   *)
(* catalog that the engine never writes.                                   *)
(***************************************************************************)
NoArgs ==
    [title |-> <<>>, exclude |-> <<>>, limit |-> 0]

Idle ==
    /\ op = "idle"
    /\ args = NoArgs
    /\ target_movie = <<>>
    /\ result = <<>>
    /\ raised = FALSE
    /\ queries = <<>>
    /\ unclosed = 0
    /\ status = "none"
    /\ previous = <<>>
    /\ movies_table = <<>>
    /\ threads = <<>>

\* the store answers every statement
Available ==
    [s \in Statements |-> TRUE]

\* the store answers no statement
Unavailable ==
    [s \in Statements |-> FALSE]

\* A store that cannot be queried has no rows to show.
InitStore(catalogs) ==
    \/ store_ok = Available /\ catalog \in catalogs
    \/ store_ok = Unavailable /\ catalog = <<>>

Init ==
    InitStore(SearchCatalogs) /\ Idle

InitResolve ==
    InitStore(TitleCatalogs) /\ Idle

InitExpand ==
    InitStore(ExpandCatalogs) /\ Idle

\* A store that raises for any of the statements, on a catalog with rows.
InitFailure ==
    /\ catalog \in FailureCatalogs
    /\ store_ok \in [Statements -> BOOLEAN]
    /\ Idle

\* The call name(a) runs to its end with outcome out (a call has one
\* outcome: the actions write it as the one member of a set).
Call(name, a, out, target) ==
    /\ op = "idle"
    /\ op' = name
    /\ args' = a
    /\ target_movie' = target
    /\ result' = out.value
    /\ raised' = out.raised
    /\ queries' = out.queries
    /\ unclosed' = out.unclosed
    /\ status' = "none"
    /\ UNCHANGED <<catalog, store_ok, previous, movies_table, threads>>

GetMovieByTitle ==
    /\ op = "idle"
    /\ \E title \in Queries :
           \E out \in {get_movie_by_title(catalog, store_ok, title)} :
               Call("get_movie_by_title", [NoArgs EXCEPT !.title = title], out, <<>>)

SearchMoviesFuzzy ==
    /\ op = "idle"
    /\ \E title \in Queries :
           \E out \in {search_movies_fuzzy(catalog, store_ok, title,
                                            DefaultFuzzyLimit)} :
               Call("search_movies_fuzzy",
                    [NoArgs EXCEPT !.title = title, !.limit = DefaultFuzzyLimit],
                    out, <<>>)

GetSimilarMoviesByGenres ==
    /\ op = "idle"
    /\ \E target \in TargetStrings, exclude \in ExcludeTitles, limit \in Limits :
           \E out \in {get_similar_movies_by_genres(catalog, store_ok, target,
                                                     exclude, limit)} :
               Call("get_similar_movies_by_genres",
                    [title |-> target, exclude |-> exclude, limit |-> limit],
                    out, <<>>)

GetSimilarMoviesByKeywords ==
    /\ op = "idle"
    /\ \E target \in TargetStrings, exclude \in ExcludeTitles, limit \in Limits :
           \E out \in {get_similar_movies_by_keywords(catalog, store_ok, target,
                                                       exclude, limit)} :
               Call("get_similar_movies_by_keywords",
                    [title |-> target, exclude |-> exclude, limit |-> limit],
                    out, <<>>)

ComprehensiveSimilaritySearch ==
    /\ op = "idle"
    /\ \E title \in Queries, limit \in Limits :
           \E out \in {comprehensive_similarity_search(catalog, store_ok, title,
                                                        limit)} :
               Call("comprehensive_similarity_search",
                    [NoArgs EXCEPT !.title = title, !.limit = limit],
                    out, out.target)

\* A call of a DatabaseManager method runs to its end with outcome out and
\* leaves the movies table as table.
ManagerCall(name, a, out, table) ==
    /\ op' = name
    /\ args' = a
    /\ result' = out.value
    /\ raised' = out.raised
    /\ queries' = out.queries
    /\ unclosed' = out.unclosed
    /\ movies_table' = table
    /\ UNCHANGED <<catalog, store_ok, target_movie, status, previous, threads>>

AddMovie ==
    /\ op = "idle"
    /\ Len(movies_table) < MaxTableRows
    /\ \E movie_data \in MovieDatas :
           \E out \in {add_movie(movies_table, movie_data)} :
               ManagerCall("add_movie", [movie_data |-> movie_data], out,
                           out.table)

AddMovies ==
    /\ op = "idle"
    /\ \E movie_list \in MovieLists :
           /\ Len(movies_table) + Len(movie_list) <= MaxTableRows
           /\ \E out \in {add_movies(movies_table, movie_list)} :
                  ManagerCall("add_movies", [movies |-> movie_list], out,
                              out.table)

GetSimilarMovies ==
    /\ op = "idle"
    /\ \E target \in ManagerTargets, exclude \in ManagerExcludes,
          limit \in Limits :
           \E out \in {get_similar_movies(movies_table, target, exclude,
                                          limit)} :
               ManagerCall("get_similar_movies",
                           [title |-> target, exclude |-> exclude,
                            limit |-> limit],
                           out, movies_table)

\* invocation t makes its step: threads becomes ths, nothing else changes
ThreadStep(ths) ==
    /\ threads' = ths
    /\ UNCHANGED <<catalog, store_ok, op, args, target_movie, result, raised,
                   queries, unclosed, status, previous, movies_table>>

\* comprehensive_similarity_search(target_title, limit) is called
Begin(t) ==
    /\ threads[t].pc = "idle"
    /\ \E target_title \in ConcurrentQueries, limit \in ConcurrentLimits :
           ThreadStep([threads EXCEPT ![t] =
                          [NotCalled EXCEPT !.pc = "exact",
                                            !.target_title = target_title,
                                            !.limit = limit]])

\* get_movie_by_title: the exact statement
ExactStep(t) ==
    /\ threads[t].pc = "exact"
    /\ ThreadStep(Resolving(threads, t,
                            ExactTitleQuery(catalog, threads[t].target_title),
                            "partial"))

\* get_movie_by_title: the substring statement
PartialStep(t) ==
    /\ threads[t].pc = "partial"
    /\ ThreadStep(Resolving(threads, t,
                            PartialTitleQuery(catalog, threads[t].target_title),
                            "scan"))

\* search_movies_fuzzy and possible_matches[0], or return []
ScanStep(t) ==
    /\ threads[t].pc = "scan"
    /\ ThreadStep(Resolving(threads, t,
                            Truncate(search_movies_fuzzy(catalog, store_ok,
                                         threads[t].target_title,
                                         DefaultFuzzyLimit).value, 1),
                            "done"))

\* get_similar_movies_by_genres(target_movie['genres'], ..., limit * 2)
GenresStep(t) ==
    /\ threads[t].pc = "genres"
    /\ ThreadStep(AfterGenres(threads, t,
                      get_similar_movies_by_genres(catalog, store_ok,
                          threads[t].target_movie[1].genres,
                          threads[t].target_movie[1].title,
                          threads[t].limit * 2).value))

\* get_similar_movies_by_keywords(target_movie['keywords'], ..., limit * 2)
KeywordsStep(t) ==
    /\ threads[t].pc = "keywords"
    /\ ThreadStep(AfterKeywords(threads, t,
                      get_similar_movies_by_keywords(catalog, store_ok,
                          threads[t].target_movie[1].keywords,
                          threads[t].target_movie[1].title,
                          threads[t].limit * 2).value))

\* The catalog's rows are stored anew (a row deleted and inserted again, the
\* table rebuilt): the same rows, scanned in another order.  The caller
\* holds the list of its search.
Rewrite ==
    /\ op = "comprehensive_similarity_search"
    /\ ~raised
    /\ previous = <<>>
    /\ catalog' \in ScanOrders(catalog)
    /\ previous' = <<result>>
    /\ op' = "rewritten"
    /\ UNCHANGED <<store_ok, args, target_movie, result, raised, queries,
                   unclosed, status, movies_table, threads>>

\* comprehensive_similarity_search once more with the query and the limit of
\* the search before
SearchAgain ==
    /\ op = "rewritten"
    /\ \E out \in {comprehensive_similarity_search(catalog, store_ok,
                                                    args.title, args.limit)} :
           /\ op' = "comprehensive_similarity_search"
           /\ target_movie' = out.target
           /\ result' = out.value
           /\ raised' = out.raised
           /\ queries' = out.queries
           /\ unclosed' = out.unclosed
           /\ UNCHANGED <<catalog, store_ok, args, status, previous,
                          movies_table, threads>>

\* run_cli_query(query): the search with limit 5 inside try/except Exception
RunCliQuery ==
    /\ op = "idle"
    /\ \E query \in Queries :
           \E out \in {comprehensive_similarity_search(catalog, store_ok, query,
                                                        CliLimit)} :
               /\ op' = "run_cli_query"
               /\ args' = [NoArgs EXCEPT !.title = query, !.limit = CliLimit]
               /\ target_movie' = out.target
               /\ result' = CliOutcome(out).recommendations
               /\ raised' = FALSE
               /\ queries' = out.queries
               /\ unclosed' = out.unclosed
               /\ status' = CliOutcome(out).status
               /\ UNCHANGED <<catalog, store_ok, previous, movies_table, threads>>

\* The caller has used the outcome and is ready for its next call.
Return ==
    /\ op # "idle"
    /\ op' = "idle"
    /\ args' = NoArgs
    /\ target_movie' = <<>>
    /\ result' = <<>>
    /\ raised' = FALSE
    /\ queries' = <<>>
    /\ unclosed' = 0
    /\ status' = "none"
    /\ previous' = <<>>
    /\ UNCHANGED <<catalog, store_ok, movies_table, threads>>

\* comprehensive_similarity_search over the catalogs of SearchRows
Next ==
    \/ ComprehensiveSimilaritySearch
    \/ Return

Spec ==
    Init /\ [][Next]_vars

\* title resolution over the catalogs of Titles
NextResolve ==
    \/ GetMovieByTitle
    \/ SearchMoviesFuzzy
    \/ ComprehensiveSimilaritySearch
    \/ Return

SpecResolve ==
    InitResolve /\ [][NextResolve]_vars

\* the two candidate operations over the catalogs of SearchRows
NextExpand ==
    \/ GetSimilarMoviesByGenres
    \/ GetSimilarMoviesByKeywords
    \/ Return

SpecExpand ==
    InitExpand /\ [][NextExpand]_vars

\* the same search twice on the same rows
InitRepeat ==
    InitStore(RepeatCatalogs) /\ Idle

NextRepeat ==
    \/ ComprehensiveSimilaritySearch
    \/ Rewrite
    \/ SearchAgain
    \/ Return

SpecRepeat ==
    InitRepeat /\ [][NextRepeat]_vars

\* DatabaseManager on a table that ensure_database_exists has just created
InitManager ==
    /\ catalog = <<>>
    /\ store_ok = Available
    /\ Idle

NextManager ==
    \/ AddMovie
    \/ AddMovies
    \/ GetSimilarMovies
    \/ Return

SpecManager ==
    InitManager /\ [][NextManager]_vars

\* the search on catalogs where many rows have one title
InitOverfetch ==
    InitStore(OverfetchCatalogs) /\ Idle

NextOverfetch ==
    \/ ComprehensiveSimilaritySearch
    \/ Return

SpecOverfetch ==
    InitOverfetch /\ [][NextOverfetch]_vars

\* searches that run at once on one catalog
InitConcurrent ==
    /\ catalog \in ConcurrentCatalogs
    /\ store_ok = Available
    /\ op = "idle"
    /\ args = NoArgs
    /\ target_movie = <<>>
    /\ result = <<>>
    /\ raised = FALSE
    /\ queries = <<>>
    /\ unclosed = 0
    /\ status = "none"
    /\ previous = <<>>
    /\ movies_table = <<>>
    /\ threads = [t \in Threads |-> NotCalled]

NextConcurrent ==
    \E t \in Threads :
        \/ Begin(t)
        \/ ExactStep(t)
        \/ PartialStep(t)
        \/ ScanStep(t)
        \/ GenresStep(t)
        \/ KeywordsStep(t)

SpecConcurrent ==
    InitConcurrent /\ [][NextConcurrent]_vars

\* the search and the command line on a store that fails
NextFailure ==
    \/ ComprehensiveSimilaritySearch
    \/ RunCliQuery
    \/ Return

SpecFailure ==
    InitFailure /\ [][NextFailure]_vars

(***************************************************************************)
(* What the claims speak of                                                *)
(***************************************************************************)
\* needle is a substring of hay
Contains(hay, needle) ==
    \E i \in 1..(Len(hay) - Len(needle) + 1) :
        \A d \in 1..Len(needle) : hay[i + d - 1] = needle[d]

\* Two strings are equal but for the case of their letters, as Python's
\* str.lower() folds it.
SameTitle(a, b) ==
    PyLower(a) = PyLower(b)

\* needle is a substring of hay but for the case of the letters
ContainsIgnoringCase(hay, needle) ==
    Contains(PyLower(hay), PyLower(needle))

\* the exact and the partial statement both find no row for query
NoExactNoPartial(query) ==
    \A i \in 1..Len(catalog) :
        /\ ~ExactTitleTest(catalog[i], query)
        /\ ~PartialTitleTest(catalog[i], query)

\* the similarity ratio of a query and a title is over 0.6
RatioOverThreshold(query, title) ==
    LET r == Ratio(PyLower(query), PyLower(title))
    IN  5 * r[1] > 3 * r[2]

\* r1 >= r2 for two fractions
RatioAtLeast(r1, r2) ==
    r1[1] * r2[2] >= r2[1] * r1[2]

CatalogRows ==
    {catalog[i] : i \in 1..Len(catalog)}

\* no title of the catalog equals, contains or resembles the query
NoOverlap(query) ==
    \A row \in CatalogRows :
        /\ ~ContainsIgnoringCase(row.title, query)
        /\ ~RatioOverThreshold(query, row.title)

\* a missing final_score counts as 0
ScoreOf(movie) ==
    IF movie.final_score = NULL THEN 0 ELSE movie.final_score[1]

\* target parses to no token: nothing but blanks and commas
OnlyBlanksAndCommas(target) ==
    \A i \in 1..Len(target) : target[i] \in {" ", ","}

\* movie shares a genre or a keyword token with target, as a substring
SharesToken(movie, target) ==
    \/ \E i \in 1..Len(ParseTokens(target.genres)) :
          ContainsIgnoringCase(movie.genres, ParseTokens(target.genres)[i])
    \/ \E i \in 1..Len(ParseTokens(target.keywords)) :
          ContainsIgnoringCase(movie.keywords, ParseTokens(target.keywords)[i])

Comprehensive ==
    op = "comprehensive_similarity_search"

Expansion ==
    op \in {"get_similar_movies_by_genres", "get_similar_movies_by_keywords"}

(***************************************************************************)
(* C1: when the query equals some catalog title case-insensitively,        *)
(* get_movie_by_title returns a record whose title equals the query        *)
(* case-insensitively, never one that only contains or resembles it.       *)
(***************************************************************************)
C1_ExactMatchReturned ==
    (/\ op = "get_movie_by_title"
     /\ \E row \in CatalogRows : SameTitle(row.title, args.title))
    => /\ ~raised
       /\ Len(result) = 1
       /\ result[1] \in CatalogRows
       /\ SameTitle(result[1].title, args.title)

(***************************************************************************)
(* C2: when the query is a case-insensitive substring of no catalog title  *)
(* and its similarity ratio to every title is at most 0.6, title           *)
(* resolution finds nothing: get_movie_by_title returns the empty dict,    *)
(* search_movies_fuzzy the empty list and comprehensive_similarity_search  *)
(* has no target movie - also for queries that hold % or _.                *)
(***************************************************************************)
C2_NoOverlapNotFound ==
    (/\ op \in {"get_movie_by_title", "search_movies_fuzzy",
                "comprehensive_similarity_search"}
     /\ ~raised
     /\ NoOverlap(args.title))
    => result = <<>> /\ target_movie = <<>>

(***************************************************************************)
(* C3: the list comprehensive_similarity_search returns holds no two       *)
(* records with the same title, in the merge branch and in the genre-only  *)
(* branch.                                                                 *)
(***************************************************************************)
C3_NoDuplicateTitles ==
    (Comprehensive /\ ~raised)
    => \A i, j \in 1..Len(result) : i # j => result[i].title # result[j].title

(***************************************************************************)
(* C4: the list comprehensive_similarity_search returns for limit N >= 0   *)
(* has at most N records.                                                  *)
(***************************************************************************)
C4_AtMostLimit ==
    Comprehensive => Len(result) <= args.limit

\* A limit of at least 1 is reached while a further candidate is left out.
C4_Witness ==
    /\ Comprehensive
    /\ args.limit >= 1
    /\ Len(result) = args.limit
    /\ \A i \in 1..Len(result) : ~SameTitle(result[i].title, args.title)
    /\ \E row \in CatalogRows :
          /\ \A i \in 1..Len(result) : result[i].title # row.title
          /\ ~SameTitle(row.title, target_movie[1].title)
          /\ SharesToken(row, target_movie[1])

(***************************************************************************)
(* C5: the list comprehensive_similarity_search returns is sorted by       *)
(* final_score descending, a missing final_score counting as 0: of two     *)
(* adjacent records the left one scores at least what the right one does.  *)
(***************************************************************************)
C5_SortedByFinalScore ==
    Comprehensive
    => \A i \in 1..(Len(result) - 1) : ScoreOf(result[i]) >= ScoreOf(result[i + 1])

(***************************************************************************)
(* C6: neither get_similar_movies_by_genres nor                            *)
(* get_similar_movies_by_keywords returns a record whose title equals the  *)
(* excluded title case-insensitively.                                      *)
(***************************************************************************)
C6_ExcludedNeverReturned ==
    Expansion
    => \A i \in 1..Len(result) : ~SameTitle(result[i].title, args.exclude)

(***************************************************************************)
(* C7: when the genre (keyword) string parses to no token - it is empty or *)
(* holds nothing but blanks and commas - get_similar_movies_by_genres      *)
(* (get_similar_movies_by_keywords) returns the empty list and raises no   *)
(* error, whatever the catalog, the excluded title and the limit.          *)
(***************************************************************************)
C7_NoTokensNoCandidates ==
    (Expansion /\ OnlyBlanksAndCommas(args.title))
    => result = <<>> /\ ~raised

\* Blanks around a comma, on a catalog that holds rows to return.
C7_Witness ==
    /\ Expansion
    /\ args.title = <<" ", ",", " ">>
    /\ \E row \in CatalogRows : ~SameTitle(row.title, args.exclude)
    /\ args.limit >= 1
    /\ result = <<>>

(***************************************************************************)
(* C8: when the store answers and no catalog title matches the query in    *)
(* any of the three steps (exact, partial, fuzzy),                         *)
(* comprehensive_similarity_search returns the empty list, raises no error *)
(* and executes no candidate statement.                                    *)
(***************************************************************************)
C8_UnresolvedReturnsEmpty ==
    (/\ Comprehensive
     /\ store_ok = Available
     /\ NoExactNoPartial(args.title)
     /\ \A row \in CatalogRows : ~RatioOverThreshold(args.title, row.title))
    => /\ ~raised
       /\ result = <<>>
       /\ target_movie = <<>>
       /\ \A i \in 1..Len(queries) : queries[i] \notin {"genres", "keywords"}

\* An unknown title on a catalog of several rows, after all three steps.
C8_Witness ==
    /\ Comprehensive
    /\ store_ok = Available
    /\ Len(catalog) >= 2
    /\ args.limit >= 1
    /\ queries = <<"exact", "partial", "scan">>
    /\ result = <<>>
    /\ ~raised

(***************************************************************************)
(* C9: when neither the exact nor the partial match finds a row and some   *)
(* catalog title has a similarity ratio over 0.6 to the query (both in     *)
(* lower case), the target movie of comprehensive_similarity_search is a   *)
(* catalog row whose ratio is the greatest of all rows and over 0.6;       *)
(* "inceptoin" resolves to "Inception".                                    *)
(***************************************************************************)
C9_FuzzyPicksBestRatio ==
    (/\ Comprehensive
     /\ NoExactNoPartial(args.title)
     /\ \E row \in CatalogRows : RatioOverThreshold(args.title, row.title))
    => /\ Len(target_movie) = 1
       /\ target_movie[1] \in CatalogRows
       /\ RatioOverThreshold(args.title, target_movie[1].title)
       /\ \A row \in CatalogRows :
             RatioAtLeast(Ratio(PyLower(args.title), PyLower(target_movie[1].title)),
                          Ratio(PyLower(args.title), PyLower(row.title)))
       /\ (args.title = <<"i", "n", "c", "e", "p", "t", "o", "i", "n">>
           => target_movie[1].title = <<"I", "n", "c", "e", "p", "t", "i", "o", "n">>)

\* Two titles resemble the query and the closer one is stored second.
C9_Witness ==
    /\ Comprehensive
    /\ Len(catalog) = 2
    /\ NoExactNoPartial(args.title)
    /\ RatioOverThreshold(args.title, catalog[1].title)
    /\ ~RatioAtLeast(Ratio(PyLower(args.title), PyLower(catalog[1].title)),
                     Ratio(PyLower(args.title), PyLower(catalog[2].title)))
    /\ target_movie = <<catalog[2]>>

(***************************************************************************)
(* C10: every record comprehensive_similarity_search returns holds, as a   *)
(* case-insensitive substring of its genre string, a genre token of the    *)
(* target movie, or, of its keyword string, a keyword token of it; the     *)
(* target movie itself is never returned; on the scenario catalog          *)
(* recommend("Inception", 2) is exactly [Interstellar].                    *)
(***************************************************************************)
C10_OnlyOverlappingOthers ==
    (Comprehensive /\ ~raised /\ target_movie # <<>>)
    => /\ \A i \in 1..Len(result) :
             /\ SharesToken(result[i], target_movie[1])
             /\ ~SameTitle(result[i].title, target_movie[1].title)
       /\ (/\ CatalogRows = ScenarioRows
           /\ args.title = <<"I", "n", "c", "e", "p", "t", "i", "o", "n">>
           /\ args.limit = 2)
          => /\ Len(result) = 1
             /\ result[1].title =
                   <<"I", "n", "t", "e", "r", "s", "t", "e", "l", "l", "a", "r">>

\* a statement the call executed was one the store raises for
StoreFailed ==
    \E i \in 1..Len(queries) : ~store_ok[queries[i]]

(***************************************************************************)
(* C12: when a statement that comprehensive_similarity_search executes     *)
(* fails, at whatever stage, the search raises and returns no list, and    *)
(* run_cli_query prints status "error" with no recommendations; when none  *)
(* fails the search does not raise and run_cli_query prints status "ok":   *)
(* the failure is told apart from the empty list.                          *)
(***************************************************************************)
C12_StoreFailurePropagates ==
    /\ Comprehensive => (raised <=> StoreFailed) /\ (raised => result = <<>>)
    /\ op = "run_cli_query"
       => /\ status = (IF StoreFailed THEN "error" ELSE "ok")
          /\ StoreFailed => result = <<>>

\* The keyword statement, the last of five, fails under run_cli_query.
C12_Witness ==
    /\ op = "run_cli_query"
    /\ queries = <<"exact", "partial", "scan", "genres", "keywords">>
    /\ \A s \in Statements : store_ok[s] <=> s # "keywords"
    /\ status = "error"

(***************************************************************************)
(* C18: every connection an engine operation opens is closed when the      *)
(* operation returns or raises: after any operation none is left open.     *)
(***************************************************************************)
C18_ConnectionsClosed ==
    op # "idle" => unclosed = 0

\* the search resolved a target that has keywords: both candidate lists are
\* fetched and merged
Merging ==
    /\ Comprehensive
    /\ ~raised
    /\ target_movie # <<>>
    /\ HasKeywords(target_movie[1])

\* the records get_similar_movies_by_genres gave the search
GenreCandidates ==
    LET similar == get_similar_movies_by_genres(catalog, store_ok,
                       target_movie[1].genres, target_movie[1].title,
                       args.limit * 2).value
    IN  {similar[i] : i \in 1..Len(similar)}

\* the records get_similar_movies_by_keywords gave the search
KeywordCandidates ==
    LET similar == get_similar_movies_by_keywords(catalog, store_ok,
                       target_movie[1].keywords, target_movie[1].title,
                       args.limit * 2).value
    IN  {similar[i] : i \in 1..Len(similar)}

\* title is the title of one of the records
TitleAmong(title, records) ==
    \E r \in records : r.title = title

(***************************************************************************)
(* C13: when the genre candidates and the keyword candidates both hold a   *)
(* title, the merged collection holds one entry with that title, and it    *)
(* is a record of the keyword candidates: no returned title occurs twice,  *)
(* and a returned record with such a title is a keyword candidate.         *)
(***************************************************************************)
C13_KeywordRecordWins ==
    Merging =>
        \A i \in 1..Len(result) :
            /\ \A j \in 1..Len(result) :
                  result[j].title = result[i].title => j = i
            /\ (/\ TitleAmong(result[i].title, GenreCandidates)
                /\ TitleAmong(result[i].title, KeywordCandidates))
               => result[i] \in KeywordCandidates

\* A returned title has one record among the genre candidates and another
\* among the keyword candidates.
C13_Witness ==
    /\ Merging
    /\ \E i \in 1..Len(result) :
          /\ result[i] \in KeywordCandidates
          /\ result[i] \notin GenreCandidates
          /\ \E g \in GenreCandidates :
                g.title = result[i].title /\ g \notin KeywordCandidates

\* the record title resolution gave: get_movie_by_title's result or the
\* search's target movie
Resolved ==
    IF Comprehensive THEN target_movie ELSE result

(***************************************************************************)
(* C16: resolution goes exact, then substring, then fuzzy.  Whenever the   *)
(* query is a case-insensitive substring of some title, the resolved       *)
(* record's title contains the query, whatever the ratios of other titles; *)
(* whenever it equals some title case-insensitively, the resolved record's *)
(* title equals it, also when a substring match is stored earlier.         *)
(***************************************************************************)
C16_StepPriority ==
    (/\ op \in {"get_movie_by_title", "comprehensive_similarity_search"}
     /\ ~raised)
    => /\ (\E row \in CatalogRows : ContainsIgnoringCase(row.title, args.title))
          => /\ Resolved # <<>>
             /\ ContainsIgnoringCase(Resolved[1].title, args.title)
       /\ (\E row \in CatalogRows : SameTitle(row.title, args.title))
          => /\ Resolved # <<>>
             /\ SameTitle(Resolved[1].title, args.title)

\* some token of the target string is a case-insensitive literal substring
\* of text
HoldsToken(text, target) ==
    \E i \in 1..Len(ParseTokens(target)) :
        ContainsIgnoringCase(text, ParseTokens(target)[i])

\* the rows a candidate operation is to return when the limit cuts nothing
LiteralMatches ==
    {row \in CatalogRows :
        /\ ~SameTitle(row.title, args.exclude)
        /\ HoldsToken(IF op = "get_similar_movies_by_genres"
                      THEN row.genres ELSE row.keywords, args.title)}

(***************************************************************************)
(* C17: with a limit of at least the catalog's size,                       *)
(* get_similar_movies_by_genres returns exactly the records, other than    *)
(* those of the excluded title, whose genre string holds a target token as *)
(* a case-insensitive literal substring - % and _ in a token stand for     *)
(* themselves - and get_similar_movies_by_keywords likewise for keywords.  *)
(***************************************************************************)
C17_ExactlyLiteralMatches ==
    (Expansion /\ ~raised /\ args.limit >= Len(catalog))
    => {result[i] : i \in 1..Len(result)} = LiteralMatches

(***************************************************************************)
(* C11: two calls of comprehensive_similarity_search with the same query   *)
(* and limit on a catalog holding the same rows return the same records in *)
(* the same order, records that tie on final_score included: the order of  *)
(* ties does not follow the order in which the store keeps the rows.       *)
(***************************************************************************)
C11_SameCallSameResult ==
    (Comprehensive /\ previous # <<>>) => result = previous[1]

(***************************************************************************)
(* C15: after any sequence of add_movie and add_movies calls, whatever     *)
(* inputs are repeated or conflict, no two rows of the movies table have   *)
(* the same title and the same release_year.                               *)
(***************************************************************************)
C15_UniqueTitleYear ==
    \A i, j \in 1..Len(movies_table) :
        (/\ movies_table[i].title = movies_table[j].title
         /\ movies_table[i].release_year = movies_table[j].release_year)
        => i = j

(***************************************************************************)
(* C19: DatabaseManager.get_similar_movies with a genre string that parses *)
(* to no token returns the empty list and does not raise, as the engine's  *)
(* candidate operations do.                                                *)
(***************************************************************************)
C19_ManagerNoTokensNoCandidates ==
    (op = "get_similar_movies" /\ OnlyBlanksAndCommas(args.title))
    => ~raised /\ result = <<>>

\* the rows that the candidate statements select for the resolved target
\* when no LIMIT cuts them: by genre, and by keyword if the target has any
Qualifying ==
    {row \in CatalogRows :
        /\ NotExcludedTest(row, target_movie[1].title)
        /\ \/ AnyTokenLikeTest(row.genres, ParseTokens(target_movie[1].genres))
           \/ /\ HasKeywords(target_movie[1])
              /\ AnyTokenLikeTest(row.keywords,
                                  ParseTokens(target_movie[1].keywords))}

\* D: the distinct titles among the qualifying rows
QualifyingTitles ==
    {row.title : row \in Qualifying}

(***************************************************************************)
(* C20: fetching each candidate list with LIMIT 2N loses nothing: for a    *)
(* resolved target and limit N the search returns min(N, D) records, D     *)
(* being the number of distinct titles among the qualifying rows, and no   *)
(* qualifying row of a title left out scores higher than a returned        *)
(* record - also when several qualifying rows share one title.             *)
(***************************************************************************)
C20_OverfetchLosesNothing ==
    (Comprehensive /\ ~raised /\ target_movie # <<>>)
    => /\ Len(result) = (IF args.limit <= Cardinality(QualifyingTitles)
                         THEN args.limit ELSE Cardinality(QualifyingTitles))
       /\ \A row \in Qualifying :
             (\A i \in 1..Len(result) : result[i].title # row.title)
             => \A i \in 1..Len(result) : ScoreOf(row) <= ScoreOf(result[i])

(***************************************************************************)
(* C14: concurrent invocations of comprehensive_similarity_search do not   *)
(* interfere: however their statements interleave, an invocation that has  *)
(* returned has returned the list the search gives when it runs alone on   *)
(* the catalog, and no step of any invocation changes the catalog.         *)
(***************************************************************************)
C14_NoInterference ==
    /\ [](\A t \in Threads :
            threads[t].pc = "done"
            => threads[t].result =
                   comprehensive_similarity_search(catalog, store_ok,
                       threads[t].target_title, threads[t].limit).value)
    /\ [][catalog' = catalog]_vars

\* One invocation has returned candidates while another, with another
\* target, is between its genre and its keyword statement.
C14_Witness ==
    \E t, u \in Threads :
        /\ threads[t].pc = "done"
        /\ threads[t].result # <<>>
        /\ threads[u].pc = "keywords"
        /\ threads[u].target_movie # threads[t].target_movie

\* row has the title and the release_year of values
SameTitleYear(row, values) ==
    /\ row.title = values.title
    /\ row.release_year = values.release_year

(***************************************************************************)
(* C21: add_movie is idempotent on the movies table: it returns True       *)
(* exactly when the call inserted a row, and when the table already holds  *)
(* a row with the title and release_year of its input it returns False and *)
(* leaves the table as it is; add_movies returns the number of rows the    *)
(* call inserted, and an input repeated in the list or already in the      *)
(* table is inserted, and counted, at most once.                           *)
(***************************************************************************)
C21_AddIdempotent ==
    [][/\ (op = "idle" /\ op' = "add_movie")
          => /\ result'[1] <=> movies_table' # movies_table
             /\ (\E i \in 1..Len(movies_table) :
                    SameTitleYear(movies_table[i],
                                  ValuesOf(args'.movie_data)))
                => result' = <<FALSE>> /\ movies_table' = movies_table
       /\ (op = "idle" /\ op' = "add_movies")
          => /\ result'[1] = Len(movies_table') - Len(movies_table)
             /\ SubSeq(movies_table', 1, Len(movies_table)) = movies_table
             /\ \A i, j \in 1..Len(movies_table') :
                   (/\ j > Len(movies_table)
                    /\ SameTitleYear(movies_table'[i], movies_table'[j]))
                   => i = j]_vars

====
